---- MODULE Spec2Model ----
(***************************************************************************)
(* Model of package queue (src/utility.go): the message envelope factory   *)
(* (CreateMessage, GetNextMessage, GetKickbackMessage) and the topology    *)
(* bootstrapper (TryCreateQueues, BindQueuesToExchange, AutoSetup).        *)
(*                                                                         *)
(* Go maps are reference values: amqp.Table is map[string]interface{}, so  *)
(* `Headers: msg.Headers` shares one map between the delivery and the      *)
(* publishing.  The model keeps header maps in a heap indexed by           *)
(* references.  int64 is modelled as two's complement of IntBits bits.     *)
(***************************************************************************)
EXTENDS Integers, Sequences, FiniteSets, Bags, TLC

---------------------------------------------------------------------------
(* Bounds *)

\* width of the modelled int64 (two's complement, wraps like Go's int64)
IntBits == 3
\* number of header maps that can be allocated at the same time
MaxRefs == 3
\* largest number of services handed to the bootstrapper
MaxServices == 2

\* longest sequence of configurations passed to AssertUniqueQueues
MaxConfs == 3

---------------------------------------------------------------------------
(* Values *)

RetryCountHeader == "retryCount"
OtherHeader == "x-origin"
HeaderKeys == {RetryCountHeader, OtherHeader}

IntMod == 2 ^ IntBits
IntMax == 2 ^ (IntBits - 1) - 1
IntMin == 0 - 2 ^ (IntBits - 1)
Int64 == IntMin .. IntMax

\* int64 arithmetic wraps around
Wrap64(x) == ((x - IntMin) % IntMod) + IntMin

\* interface{} values held by a header map: a dynamic type and a value
Int64Val(n) == [type |-> "int64", val |-> n]
Int32Val(n) == [type |-> "int32", val |-> n]
StringVal(n) == [type |-> "string", val |-> n]
\* what a lookup of a missing key yields (nil interface, exists = false)
Absent == [type |-> "absent", val |-> 0]

NilRef == 0
Refs == 1 .. MaxRefs

EmptyMap == [k \in HeaderKeys |-> Absent]

\* the header maps a source delivery may carry
SourceMaps ==
    { [k \in HeaderKeys |-> IF k = RetryCountHeader THEN rc ELSE o] :
        rc \in {Absent, Int32Val(1)} \cup {Int64Val(n) : n \in Int64},
        o \in {Absent, StringVal(1)} }

\* the zero value amqp.Publishing{}
EmptyPublishing ==
    [Headers |-> NilRef, ContentType |-> "", ContentEncoding |-> "",
     DeliveryMode |-> 0, Priority |-> 0, CorrelationId |-> "", ReplyTo |-> "",
     Expiration |-> "", MessageId |-> "", Timestamp |-> 0, Type |-> "",
     Body |-> <<>>]

\* a delivery with every property set
FullDelivery ==
    [Headers |-> NilRef, ContentType |-> "application/json",
     ContentEncoding |-> "utf-8", DeliveryMode |-> 2, Priority |-> 5,
     CorrelationId |-> "corr", ReplyTo |-> "reply", Expiration |-> "60000",
     MessageId |-> "mid", Timestamp |-> 1577836800, Type |-> "cmd",
     Body |-> <<"{", "}">>]

\* the properties of the source deliveries (Headers are set separately)
SourceDeliveries == {EmptyPublishing, FullDelivery}

\* Go values handed to json.Marshal
Bodies ==
    { [kind |-> "nil", val |-> ""], [kind |-> "bool", val |-> "true"],
      [kind |-> "string", val |-> "a"], [kind |-> "chan", val |-> ""] }

\* no body argument (a Go nil)
NoBody == [kind |-> "nil", val |-> ""]

\* json.Marshal: the encoded bytes, or an error for an unsupported type
Marshal(body) ==
    CASE body.kind = "nil" -> [bytes |-> <<"n", "u", "l", "l">>, err |-> "nil"]
      [] body.kind = "bool" ->
            [bytes |-> IF body.val = "true" THEN <<"t", "r", "u", "e">>
                       ELSE <<"f", "a", "l", "s", "e">>, err |-> "nil"]
      [] body.kind = "string" ->
            [bytes |-> <<"\"">> \o <<body.val>> \o <<"\"">>, err |-> "nil"]
      [] OTHER -> [bytes |-> <<>>, err |-> "json: unsupported type"]

---------------------------------------------------------------------------
(* The envelope factory, statement by statement.  A frame is one call's    *)
(* locals; pc is the source line the call is at.                           *)

\* lowest reference not in use: make(map[string]interface{})
Alloc(live) == CHOOSE r \in Refs : r \notin live /\ \A q \in Refs \ live : r <= q

CreatePublishingTyped(r, rawBody) ==
    [EmptyPublishing EXCEPT !.Headers = r, !.Body = rawBody,
                            !.ContentType = "application/json"]

\* utility.go:141-146
CreatePublishing(r, rawBody) ==
    [EmptyPublishing EXCEPT !.Headers = r, !.Body = rawBody]

\* utility.go:157-165
NextPublishing(msg, rawBody) ==
    [EmptyPublishing EXCEPT !.Headers = msg.Headers,
                            !.ContentType = msg.ContentType,
                            !.ContentEncoding = msg.ContentEncoding,
                            !.DeliveryMode = msg.DeliveryMode,
                            !.Type = msg.Type,
                            !.Body = rawBody]

KickbackPublishingLikeNext(msg) == NextPublishing(msg, msg.Body)

\* utility.go:178-192
KickbackPublishing(msg) ==
    [Headers |-> msg.Headers, ContentType |-> msg.ContentType,
     ContentEncoding |-> msg.ContentEncoding, DeliveryMode |-> msg.DeliveryMode,
     Priority |-> msg.Priority, CorrelationId |-> msg.CorrelationId,
     ReplyTo |-> msg.ReplyTo, Expiration |-> msg.Expiration,
     MessageId |-> msg.MessageId, Timestamp |-> msg.Timestamp,
     Type |-> msg.Type, Body |-> msg.Body]

SetRetryZeroSkipped(h, r) == h

\* pub.Headers[RetryCountHeader] = int64(0)   (utility.go:169 and :198)
SetRetryZero(h, r) == [h EXCEPT ![r][RetryCountHeader] = Int64Val(0)]

\* pub.Headers[RetryCountHeader].(int64) > maxRetries   (utility.go:200)
Exhausted(c, maxR) == c > maxR

\* pub.Headers[RetryCountHeader].(int64) + 1   (utility.go:203)
Increment(c) == Wrap64(c + 1)

TypeAssertCoerced(v) ==
    [ok |-> TRUE, val |-> IF v.type = "int64" THEN v.val ELSE 0]

\* the type assertion x.(int64): it panics unless the dynamic type is int64
\* (utility.go:200, 203)
TypeAssertInt64(v) == [ok |-> v.type = "int64", val |-> v.val]

NewFrame(op, body) ==
    [op |-> op, body |-> body, pc |-> "enter", pub |-> EmptyPublishing,
     raw |-> <<>>, tmp |-> 0, ret |-> EmptyPublishing, err |-> "nil"]

Finished(f) == f.pc \in {"done", "panic"}

Return(f, p, e) == [f EXCEPT !.pc = "done", !.ret = p, !.err = e]

\* if pub.Headers == nil { pub.Headers = map[string]interface{}{} }
NilCheck(f, h, live, next) ==
    IF f.pub.Headers = NilRef
    THEN LET r == Alloc(live)
         IN [f |-> [f EXCEPT !.pc = next, !.pub.Headers = r],
             h |-> [h EXCEPT ![r] = EmptyMap]]
    ELSE [f |-> [f EXCEPT !.pc = next], h |-> h]

\* one statement of CreateMessage
CreateStep(f, h, live) ==
    CASE f.pc = "enter" ->
            LET m == Marshal(f.body)
            IN IF m.err # "nil"
               THEN [f |-> Return(f, EmptyPublishing, m.err), h |-> h]
               ELSE [f |-> [f EXCEPT !.pc = "141", !.raw = m.bytes], h |-> h]
      [] f.pc = "141" ->
            LET r == Alloc(live)
            IN [f |-> Return([f EXCEPT !.pub = CreatePublishing(r, f.raw)],
                             CreatePublishing(r, f.raw), "nil"),
                h |-> SetRetryZero([h EXCEPT ![r] = EmptyMap], r)]

\* one statement of GetNextMessage
NextStep(f, h, msg, live) ==
    CASE f.pc = "enter" ->
            LET m == Marshal(f.body)
            IN IF m.err # "nil"
               THEN [f |-> Return(f, EmptyPublishing, m.err), h |-> h]
               ELSE [f |-> [f EXCEPT !.pc = "157", !.raw = m.bytes], h |-> h]
      [] f.pc = "157" ->
            [f |-> [f EXCEPT !.pc = "166", !.pub = NextPublishing(msg, f.raw)],
             h |-> h]
      [] f.pc = "166" -> NilCheck(f, h, live, "169")
      [] f.pc = "169" ->
            [f |-> [f EXCEPT !.pc = "171"], h |-> SetRetryZero(h, f.pub.Headers)]
      [] f.pc = "171" -> [f |-> Return(f, f.pub, "nil"), h |-> h]

\* one statement of GetKickbackMessage
KickbackStep(f, h, maxR, msg, live) ==
    CASE f.pc = "enter" ->
            [f |-> [f EXCEPT !.pc = "193", !.pub = KickbackPublishing(msg)],
             h |-> h]
      [] f.pc = "193" -> NilCheck(f, h, live, "196")
      [] f.pc = "196" ->
            LET exists == h[f.pub.Headers][RetryCountHeader] # Absent
            IN [f |-> [f EXCEPT !.pc = IF exists THEN "200" ELSE "198"], h |-> h]
      [] f.pc = "198" ->
            [f |-> [f EXCEPT !.pc = "200"], h |-> SetRetryZero(h, f.pub.Headers)]
      [] f.pc = "200" ->
            LET v == TypeAssertInt64(h[f.pub.Headers][RetryCountHeader])
            IN IF ~v.ok
               THEN [f |-> [f EXCEPT !.pc = "panic",
                                     !.err = "interface conversion"], h |-> h]
               ELSE IF Exhausted(v.val, maxR)
               THEN [f |-> Return(f, EmptyPublishing, "too many retries"),
                     h |-> h]
               ELSE [f |-> [f EXCEPT !.pc = "203"], h |-> h]
      [] f.pc = "203" ->
            LET v == TypeAssertInt64(h[f.pub.Headers][RetryCountHeader])
            IN IF ~v.ok
               THEN [f |-> [f EXCEPT !.pc = "panic",
                                     !.err = "interface conversion"], h |-> h]
               ELSE [f |-> [f EXCEPT !.pc = "203w", !.tmp = Increment(v.val)],
                     h |-> h]
      [] f.pc = "203w" ->
            [f |-> [f EXCEPT !.pc = "204"],
             h |-> [h EXCEPT ![f.pub.Headers][RetryCountHeader] = Int64Val(f.tmp)]]
      [] f.pc = "204" -> [f |-> Return(f, f.pub, "nil"), h |-> h]

FactoryStep(f, h, maxR, msg, live) ==
    CASE f.op = "CreateMessage" -> CreateStep(f, h, live)
      [] f.op = "GetNextMessage" -> NextStep(f, h, msg, live)
      [] f.op = "GetKickbackMessage" -> KickbackStep(f, h, maxR, msg, live)

\* a call that runs alone, from entry to return (or panic)
RECURSIVE RunCall(_, _, _, _, _)
RunCall(f, h, maxR, msg, live) ==
    IF Finished(f) THEN [f |-> f, h |-> h]
    ELSE LET s == FactoryStep(f, h, maxR, msg, live)
         IN RunCall(s.f, s.h, maxR, msg, live \cup {s.f.pub.Headers})

CreateMessage(body, h, live) ==
    RunCall(NewFrame("CreateMessage", body), h, 0, EmptyPublishing, live)

GetNextMessage(msg, body, h, live) ==
    RunCall(NewFrame("GetNextMessage", body), h, 0, msg, live)

GetKickbackMessage(maxR, msg, h, live) ==
    RunCall(NewFrame("GetKickbackMessage", NoBody),
            h, maxR, msg, live)

---------------------------------------------------------------------------
(* State *)

VARIABLES
    maxRetries,  \* amqpMessage.maxRetries
    msg,         \* the delivery the factory is called on
    heap,        \* the header maps, by reference
    pub,         \* the publishing returned by the last call
    err,         \* the error returned by the last call
    lastOp,      \* the last call made on msg ("none": not called yet)
    lastBody,    \* the body argument of the last call
    pre,         \* the header mapping of msg when the last call started
    chain,       \* length of the kickback chain that led to msg, -1 if none
    source,      \* the delivery the current run of kickbacks started from
    managed,     \* msg is an envelope of a sequence begun by CreateMessage
    tracked,     \* pub is an envelope of a sequence begun by CreateMessage
    frames,      \* the locals of the calls that run concurrently on msg
    solo,        \* what each of these calls returns when it runs alone
    fatal,       \* the runtime aborted on a concurrent map access
    entry,       \* the bootstrapper function the program called
    n,           \* len(queues)
    conf,        \* queues[i].Config()
    pc,          \* where the caller of the bootstrapper is
    i,           \* the caller's loop index (1-based)
    ctask,       \* the goroutines of TryCreateQueues
    btask,       \* the goroutines of BindQueuesToExchange
    created,     \* how often CreateQueue / CreateExchange was called
    channel,     \* the channel each service handed out
    binds,       \* the QueueBind calls made, a bag
    closes,      \* how often Close was called on each service's channel
    reported,    \* what the caller received from each bind goroutine
    logged,      \* number of "failed to create a queue or exchange" entries
    confs,       \* AssertUniqueQueues: the configurations passed in
    auqPc,       \* AssertUniqueQueues: position of the call
    auqI,        \* AssertUniqueQueues: i of the outer loop
    auqJ,        \* AssertUniqueQueues: j of the logging loop
    queues,      \* AssertUniqueQueues: keys of the local map
    errorLog     \* the log.Errorf lines written, in order

sharedVars == <<maxRetries, msg, heap>>
callerVars == <<pub, err, lastOp, lastBody, pre, chain, source, managed, tracked>>
concVars == <<frames, solo, fatal>>
factoryVars == <<sharedVars, callerVars, concVars>>
setupVars == <<entry, n, conf, pc, i, ctask, btask, created, channel, binds,
               closes, reported, logged>>

uniqueVars == <<confs, auqPc, auqI, auqJ, queues, errorLog>>

vars == <<factoryVars, setupVars, uniqueVars>>

Callers == {1, 2}

\* the header mapping a delivery or publishing refers to
HeadersOf(p, h) ==
    IF p.Headers = NilRef THEN [isNil |-> TRUE, map |-> EmptyMap]
    ELSE [isNil |-> FALSE, map |-> h[p.Headers]]

\* header maps nothing refers to any more are garbage
Collect(h, live) == [r \in Refs |-> IF r \in live THEN h[r] ELSE EmptyMap]

\* longest kickback chain that is followed
ChainCap == IntMax + 2

\* a publishing with its header mapping in place of the reference
View(p, h) == [p EXCEPT !.Headers = HeadersOf(p, h)]

\* what a call hands back: the envelope, the error, or a panic
Result(f, h) ==
    [panic |-> f.pc = "panic", err |-> f.err, ret |-> View(f.ret, h)]

\* the source deliveries, with their header maps at reference 1
SourceOK(m, h) ==
    \E d \in SourceDeliveries :
        \/ /\ m = d
           /\ h = [r \in Refs |-> EmptyMap]
        \/ \E sm \in SourceMaps :
              /\ m = [d EXCEPT !.Headers = 1]
              /\ h = [r \in Refs |-> IF r = 1 THEN sm ELSE EmptyMap]

\* no concurrent calls
ConcIdle ==
    /\ frames = [c \in Callers |-> NewFrame("idle", NoBody)]
    /\ solo = [c \in Callers |-> Result(NewFrame("idle", NoBody), heap)]
    /\ fatal = FALSE

\* a single caller that has not called yet
CallerIdle ==
    /\ pub = EmptyPublishing
    /\ err = "nil"
    /\ lastOp = "none"
    /\ lastBody = NoBody
    /\ pre = HeadersOf(msg, heap)
    /\ chain = -1
    /\ source = msg
    /\ managed = FALSE
    /\ tracked = FALSE

Services == 1 .. MaxServices
CreateTasks == Services \X {"queue", "exchange"}

\* the queue names of the services, pairwise distinct
QueueNames == <<"orders", "billing", "audit", "mail">>

\* the configuration of service s: its own queue name, an exchange name
Config(s, exchange) ==
    [QueueName |-> QueueNames[s], Exchange |-> [Name |-> exchange]]

\* the bootstrapper's state before any of its goroutines exists
SetupStart ==
    /\ i = 1
    /\ ctask = [t \in CreateTasks |-> "none"]
    /\ btask = [s \in Services |-> "none"]
    /\ created = [t \in CreateTasks |-> 0]
    /\ channel = [s \in Services |-> "none"]
    /\ binds = EmptyBag
    /\ closes = [s \in Services |-> 0]
    /\ reported = [s \in Services |-> "none"]
    /\ logged = 0

\* the bootstrapper is not called
SetupIdle ==
    /\ entry = "none"
    /\ n = 0
    /\ conf = [s \in Services |-> Config(s, "")]
    /\ pc = "returned"
    /\ SetupStart

\* AssertUniqueQueues is not called
UniqueIdle ==
    /\ confs = <<>>
    /\ auqPc = "none"
    /\ auqI = 0
    /\ auqJ = 0
    /\ queues = {}
    /\ errorLog = <<>>

\* the factory is not called
FactoryIdle ==
    /\ maxRetries = 0
    /\ msg = EmptyPublishing
    /\ heap = [r \in Refs |-> EmptyMap]
    /\ CallerIdle
    /\ ConcIdle

---------------------------------------------------------------------------
(* The factory called by one caller at a time *)

InitFactory ==
    /\ maxRetries \in Int64
    /\ SourceOK(msg, heap)
    /\ pub = EmptyPublishing
    /\ err = "nil"
    /\ lastOp = "none"
    /\ lastBody = NoBody
    /\ pre = HeadersOf(msg, heap)
    /\ chain = IF HeadersOf(msg, heap).map[RetryCountHeader] = Absent THEN 0 ELSE -1
    /\ source = msg
    /\ managed = FALSE
    /\ tracked = FALSE
    /\ ConcIdle
    /\ SetupIdle
    /\ UniqueIdle

\* the caller's side of a call: the results are stored, a panic unwinds
Called(op, body, res, newChain) ==
    /\ lastBody' = body
    /\ pub' = IF res.f.pc = "panic" THEN EmptyPublishing ELSE res.f.ret
    /\ err' = res.f.err
    /\ heap' = Collect(res.h, {msg.Headers, pub'.Headers})
    /\ lastOp' = op
    /\ pre' = HeadersOf(msg, heap)
    /\ chain' = newChain
    /\ tracked' = /\ err' = "nil"
                  /\ \/ op = "CreateMessage"
                     \/ managed /\ lastOp = "none"
    /\ UNCHANGED <<maxRetries, msg, source, managed, concVars, setupVars, uniqueVars>>

CallCreateMessage ==
    \E body \in Bodies :
        Called("CreateMessage", body, CreateMessage(body, heap, {msg.Headers}), -1)

CallGetNextMessage ==
    \E body \in Bodies :
        Called("GetNextMessage", body, GetNextMessage(msg, body, heap, {msg.Headers}), -1)

CallGetKickbackMessage ==
    Called("GetKickbackMessage", NoBody,
           GetKickbackMessage(maxRetries, msg, heap, {msg.Headers}),
           IF lastOp = "none" /\ chain >= 0 /\ chain < ChainCap
           THEN chain + 1 ELSE -1)

\* the returned envelope becomes the next delivery:
\* amqp.Delivery{Headers: pub.Headers, ..., Body: pub.Body}
Requeue ==
    /\ lastOp # "none"
    /\ err = "nil"
    /\ msg' = pub
    /\ heap' = Collect(heap, {pub.Headers})
    /\ lastOp' = "none"
    /\ lastBody' = NoBody
    /\ pre' = HeadersOf(pub, heap)
    /\ chain' = IF lastOp = "GetKickbackMessage" THEN chain ELSE -1
    /\ source' = IF lastOp = "GetKickbackMessage" THEN source ELSE pub
    /\ managed' = tracked
    /\ UNCHANGED <<maxRetries, pub, err, tracked, concVars, setupVars, uniqueVars>>

NextFactory ==
    \/ CallCreateMessage
    \/ CallGetNextMessage
    \/ CallGetKickbackMessage
    \/ Requeue

Spec == InitFactory /\ [][NextFactory]_vars

---------------------------------------------------------------------------
(* Two calls running concurrently on the same delivery.  The statements    *)
(* of the two calls interleave; nothing in the source orders them.         *)

ConcurrentBodies == {b \in Bodies : b.kind \in {"string", "chan"}}

\* the calls two goroutines can make on one delivery
ConcurrentCalls ==
    {NewFrame("GetNextMessage", b) : b \in ConcurrentBodies}
        \cup {NewFrame("GetKickbackMessage", NoBody)}

InitConcurrent ==
    /\ maxRetries \in Int64
    /\ SourceOK(msg, heap)
    /\ CallerIdle
    /\ SetupIdle
    /\ UniqueIdle
    /\ frames \in [Callers -> ConcurrentCalls]
    /\ solo = [c \in Callers |->
                 LET r == RunCall(frames[c], heap, maxRetries, msg, {msg.Headers})
                 IN Result(r.f, r.h)]
    /\ fatal = FALSE

\* the header maps some call or the delivery refers to
LiveRefs ==
    {msg.Headers} \cup {frames[c].pub.Headers : c \in Callers}
                  \cup {frames[c].ret.Headers : c \in Callers}

\* the statements that write, and those that read or write, a header map
WritePcs == {"169", "198", "203w"}
AccessPcs == WritePcs \cup {"196", "200", "203"}

\* one statement of one call
Step(c) ==
    /\ ~fatal
    /\ ~Finished(frames[c])
    /\ LET s == FactoryStep(frames[c], heap, maxRetries, msg, LiveRefs)
       IN /\ frames' = [frames EXCEPT ![c] = s.f]
          /\ heap' = s.h
    /\ UNCHANGED <<maxRetries, msg, callerVars, solo, fatal, setupVars, uniqueVars>>

\* a map write that overlaps another access of the same map is a data race:
\* the Go runtime may abort ("fatal error: concurrent map writes")
RaceFault ==
    /\ ~fatal
    /\ \E c, d \in Callers :
          /\ c # d
          /\ frames[c].pub.Headers # NilRef
          /\ frames[c].pub.Headers = frames[d].pub.Headers
          /\ frames[c].pc \in WritePcs
          /\ frames[d].pc \in AccessPcs
    /\ fatal' = TRUE
    /\ UNCHANGED <<sharedVars, callerVars, frames, solo, setupVars, uniqueVars>>

NextConcurrent ==
    \/ \E c \in Callers : Step(c)
    \/ RaceFault

SpecConcurrent == InitConcurrent /\ [][NextConcurrent]_vars

---------------------------------------------------------------------------
(* The topology bootstrapper.  The caller and its goroutines interleave;   *)
(* errChan is unbuffered, so a send and its receive are one step.          *)

ExchangeNames == {"", "events"}

InitSetup ==
    /\ FactoryIdle
    /\ UniqueIdle
    /\ entry \in {"AutoSetup", "TryCreateQueues", "BindQueuesToExchange"}
    /\ n \in 0 .. MaxServices
    /\ \E ex \in [Services -> ExchangeNames] :
          /\ \A s \in Services : s > n => ex[s] = ""
          /\ conf = [s \in Services |-> Config(s, ex[s])]
    /\ pc = IF entry = "BindQueuesToExchange" THEN "bq_go" ELSE "tcq_go_queue"
    /\ SetupStart

CreateResultsOncePerService(len) == len

\* for i := 0; i < len(queues)*2; i++   (utility.go:97)
CreateResults(len) == len * 2

BindResultsOneMore(len) == len + 1

\* for i := 0; i < len(queues); i++   (utility.go:126)
BindResults(len) == len

IsDefaultExchangeByQueueName(c) == c.QueueName = ""

\* conf.Exchange.Name == ""   (utility.go:118)
IsDefaultExchange(c) == c.Exchange.Name = ""

QueueBindArgsKeyedByExchange(c) ==
    [name |-> c.QueueName, key |-> c.Exchange.Name, exchange |-> c.Exchange.Name,
     noWait |-> FALSE, args |-> "nil"]

\* ch.QueueBind(conf.QueueName, conf.QueueName, conf.Exchange.Name, false, nil)
QueueBindArgs(c) ==
    [name |-> c.QueueName, key |-> c.QueueName, exchange |-> c.Exchange.Name,
     noWait |-> FALSE, args |-> "nil"]

\* the received results so far: one per goroutine that has sent
CreateReceived == Cardinality({t \in CreateTasks : ctask[t] = "done"})
BindReceived == Cardinality({s \in Services : reported[s] # "none"})

\* go func(i int) { errChan <- queues[i].CreateQueue() }(i)
TCQ_GoCreateQueue ==
    /\ pc = "tcq_go_queue"
    /\ i <= n
    /\ ctask' = [ctask EXCEPT ![<<i, "queue">>] = "ready"]
    /\ pc' = "tcq_go_exchange"
    /\ UNCHANGED <<factoryVars, uniqueVars, entry, n, conf, i, btask, created, channel,
                   binds, closes, reported, logged>>

\* go func(i int) { errChan <- queues[i].CreateExchange() }(i)
TCQ_GoCreateExchange ==
    /\ pc = "tcq_go_exchange"
    /\ ctask' = [ctask EXCEPT ![<<i, "exchange">>] = "ready"]
    /\ i' = i + 1
    /\ pc' = "tcq_go_queue"
    /\ UNCHANGED <<factoryVars, uniqueVars, entry, n, conf, btask, created, channel,
                   binds, closes, reported, logged>>

\* the spawning loop ends
TCQ_Spawned ==
    /\ pc = "tcq_go_queue"
    /\ i > n
    /\ pc' = "tcq_recv"
    /\ UNCHANGED <<factoryVars, uniqueVars, entry, n, conf, i, ctask, btask, created, channel,
                   binds, closes, reported, logged>>

\* a goroutine calls CreateQueue() or CreateExchange()
CreateCall(t) ==
    /\ ctask[t] = "ready"
    /\ ctask' = [ctask EXCEPT ![t] = "running"]
    /\ created' = [created EXCEPT ![t] = @ + 1]
    /\ UNCHANGED <<factoryVars, uniqueVars, entry, n, conf, pc, i, btask, channel, binds,
                   closes, reported, logged>>

\* the broker operation returns, with or without an error
CreateReturn(t) ==
    /\ ctask[t] = "running"
    /\ \E e \in {"nil", "err"} :
          ctask' = [ctask EXCEPT ![t] = IF e = "nil" THEN "send_nil" ELSE "send_err"]
    /\ UNCHANGED <<factoryVars, uniqueVars, entry, n, conf, pc, i, btask, created, channel,
                   binds, closes, reported, logged>>

\* err := <-errChan, and the log entry when err != nil
TCQ_Receive(t) ==
    /\ pc = "tcq_recv"
    /\ CreateReceived < CreateResults(n)
    /\ ctask[t] \in {"send_nil", "send_err"}
    /\ ctask' = [ctask EXCEPT ![t] = "done"]
    /\ logged' = IF ctask[t] = "send_err" THEN logged + 1 ELSE logged
    /\ UNCHANGED <<factoryVars, uniqueVars, entry, n, conf, pc, i, btask, created, channel,
                   binds, closes, reported>>

\* TryCreateQueues returns; AutoSetup goes on to BindQueuesToExchange
TCQ_Return ==
    /\ pc = "tcq_recv"
    /\ CreateReceived >= CreateResults(n)
    /\ pc' = IF entry = "AutoSetup" THEN "bq_go" ELSE "returned"
    /\ i' = 1
    /\ UNCHANGED <<factoryVars, uniqueVars, entry, n, conf, ctask, btask, created, channel,
                   binds, closes, reported, logged>>

\* go func(i int) { ... }(i)   (utility.go:110)
BQ_Go ==
    /\ pc = "bq_go"
    /\ i <= n
    /\ btask' = [btask EXCEPT ![i] = "ready"]
    /\ i' = i + 1
    /\ UNCHANGED <<factoryVars, uniqueVars, entry, n, conf, pc, ctask, created, channel,
                   binds, closes, reported, logged>>

BQ_Spawned ==
    /\ pc = "bq_go"
    /\ i > n
    /\ pc' = "bq_recv"
    /\ UNCHANGED <<factoryVars, uniqueVars, entry, n, conf, i, ctask, btask, created, channel,
                   binds, closes, reported, logged>>

\* ch, err := queues[i].Channel() is called
ChannelCall(s) ==
    /\ btask[s] = "ready"
    /\ btask' = [btask EXCEPT ![s] = "channel_wait"]
    /\ UNCHANGED <<factoryVars, uniqueVars, entry, n, conf, pc, i, ctask, created, channel,
                   binds, closes, reported, logged>>

\* Channel() returns a channel (then defer ch.Close() is registered) or an error
ChannelReturn(s) ==
    /\ btask[s] = "channel_wait"
    /\ \/ /\ channel' = [channel EXCEPT ![s] = "open"]
          /\ btask' = [btask EXCEPT ![s] = "config"]
       \/ /\ channel' = [channel EXCEPT ![s] = "failed"]
          /\ btask' = [btask EXCEPT ![s] = "send_channel_err"]
    /\ UNCHANGED <<factoryVars, uniqueVars, entry, n, conf, pc, i, ctask, created, binds,
                   closes, reported, logged>>

\* conf := queues[i].Config() and the test for the default exchange
ReadConfig(s) ==
    /\ btask[s] = "config"
    /\ btask' = [btask EXCEPT ![s] = IF IsDefaultExchange(conf[s])
                                     THEN "send_skip" ELSE "bind"]
    /\ UNCHANGED <<factoryVars, uniqueVars, entry, n, conf, pc, i, ctask, created, channel,
                   binds, closes, reported, logged>>

\* ch.QueueBind(...) is called: the operand of the send is evaluated first
QueueBindCall(s) ==
    /\ btask[s] = "bind"
    /\ btask' = [btask EXCEPT ![s] = "bind_wait"]
    /\ binds' = binds (+) SetToBag({[svc |-> s, on |-> channel[s],
                                     call |-> QueueBindArgs(conf[s])]})
    /\ UNCHANGED <<factoryVars, uniqueVars, entry, n, conf, pc, i, ctask, created, channel,
                   closes, reported, logged>>

QueueBindReturn(s) ==
    /\ btask[s] = "bind_wait"
    /\ \E e \in {"nil", "err"} :
          btask' = [btask EXCEPT ![s] = IF e = "nil" THEN "send_bind_nil"
                                       ELSE "send_bind_err"]
    /\ UNCHANGED <<factoryVars, uniqueVars, entry, n, conf, pc, i, ctask, created, channel,
                   binds, closes, reported, logged>>

\* the value a bind goroutine is sending
Sending(state) ==
    CASE state = "send_channel_err" -> "err"
      [] state = "send_bind_err" -> "err"
      [] state = "send_skip" -> "nil"
      [] state = "send_bind_nil" -> "nil"
      [] OTHER -> "none"

AfterSendWithoutDefer(state) == "done"

\* where a bind goroutine goes once its send is received: it returns, and a
\* registered defer ch.Close() runs at that return
AfterSend(state) == IF state = "send_channel_err" THEN "done" ELSE "deferred_close"

\* err := <-errChan, and the log entry when err != nil
BQ_Receive(s) ==
    /\ pc = "bq_recv"
    /\ BindReceived < BindResults(n)
    /\ Sending(btask[s]) # "none"
    /\ reported' = [reported EXCEPT ![s] = Sending(btask[s])]
    /\ logged' = IF Sending(btask[s]) = "err" THEN logged + 1 ELSE logged
    /\ btask' = [btask EXCEPT ![s] = AfterSend(btask[s])]
    /\ UNCHANGED <<factoryVars, uniqueVars, entry, n, conf, pc, i, ctask, created, channel,
                   binds, closes>>

\* the deferred ch.Close() runs as the goroutine returns
DeferredClose(s) ==
    /\ btask[s] = "deferred_close"
    /\ channel' = [channel EXCEPT ![s] = "closed"]
    /\ closes' = [closes EXCEPT ![s] = @ + 1]
    /\ btask' = [btask EXCEPT ![s] = "done"]
    /\ UNCHANGED <<factoryVars, uniqueVars, entry, n, conf, pc, i, ctask, created, binds,
                   reported, logged>>

\* BindQueuesToExchange returns
BQ_Return ==
    /\ pc = "bq_recv"
    /\ BindReceived >= BindResults(n)
    /\ pc' = "returned"
    /\ UNCHANGED <<factoryVars, uniqueVars, entry, n, conf, i, ctask, btask, created, channel,
                   binds, closes, reported, logged>>

NextSetup ==
    \/ TCQ_GoCreateQueue
    \/ TCQ_GoCreateExchange
    \/ TCQ_Spawned
    \/ \E t \in CreateTasks : CreateCall(t)
    \/ \E t \in CreateTasks : CreateReturn(t)
    \/ \E t \in CreateTasks : TCQ_Receive(t)
    \/ TCQ_Return
    \/ BQ_Go
    \/ BQ_Spawned
    \/ \E s \in Services : ChannelCall(s)
    \/ \E s \in Services : ChannelReturn(s)
    \/ \E s \in Services : ReadConfig(s)
    \/ \E s \in Services : QueueBindCall(s)
    \/ \E s \in Services : QueueBindReturn(s)
    \/ \E s \in Services : BQ_Receive(s)
    \/ \E s \in Services : DeferredClose(s)
    \/ BQ_Return

SpecSetup == InitSetup /\ [][NextSetup]_vars

\* The Go scheduler runs every runnable goroutine, and every broker
\* operation is assumed to return: a step that stays possible is taken.
SpecSetupFair == SpecSetup /\ WF_vars(NextSetup)

---------------------------------------------------------------------------
(* AssertUniqueQueues, statement by statement.  Only QueueName is read.    *)

ConfNames == {"orders", "billing", "audit"}

ConfSeqs ==
    UNION {[1 .. len -> [QueueName : ConfNames]] : len \in 0 .. MaxConfs}

InitUnique ==
    /\ FactoryIdle
    /\ SetupIdle
    /\ confs \in ConfSeqs
    /\ auqPc = "range"
    /\ auqI = 0
    /\ auqJ = 0
    /\ queues = {}
    /\ errorLog = <<>>

MismatchOffByOne(len, idx) == len # idx

\* utility.go:58  if len(queues)-1 != i
Mismatch(len, idx) == len - 1 # idx

LogEntryWithoutIndex(cs, idx) == [index |-> 0, name |-> cs[idx + 1].QueueName]

\* utility.go:60  log.Errorf("%d = %s", j, confs[j].QueueName)
LogEntry(cs, idx) == [index |-> idx, name |-> cs[idx + 1].QueueName]

\* utility.go:56-57  for i := range confs { queues[confs[i].QueueName] = false
AUQ_Insert ==
    /\ auqPc = "range"
    /\ auqI < Len(confs)
    /\ queues' = queues \cup {confs[auqI + 1].QueueName}
    /\ auqPc' = "compare"
    /\ UNCHANGED <<factoryVars, setupVars, confs, auqI, auqJ, errorLog>>

\* utility.go:58  the comparison, and the next i when it passes
AUQ_Compare ==
    /\ auqPc = "compare"
    /\ IF Mismatch(Cardinality(queues), auqI)
          THEN auqPc' = "log" /\ auqI' = auqI
          ELSE auqPc' = "range" /\ auqI' = auqI + 1
    /\ UNCHANGED <<factoryVars, setupVars, confs, auqJ, queues, errorLog>>

\* utility.go:59-61  for j := range confs { log.Errorf(...) }
AUQ_Log ==
    /\ auqPc = "log"
    /\ auqJ < Len(confs)
    /\ errorLog' = Append(errorLog, LogEntry(confs, auqJ))
    /\ auqJ' = auqJ + 1
    /\ UNCHANGED <<factoryVars, setupVars, confs, auqPc, auqI, queues>>

\* utility.go:62  log.Panic("queue names are not unique")
AUQ_Panic ==
    /\ auqPc = "log"
    /\ auqJ = Len(confs)
    /\ auqPc' = "panic"
    /\ UNCHANGED <<factoryVars, setupVars, confs, auqI, auqJ, queues, errorLog>>

\* utility.go:65  the outer loop is over, the function returns
AUQ_Return ==
    /\ auqPc = "range"
    /\ auqI = Len(confs)
    /\ auqPc' = "returned"
    /\ UNCHANGED <<factoryVars, setupVars, confs, auqI, auqJ, queues, errorLog>>

NextUnique ==
    \/ AUQ_Insert
    \/ AUQ_Compare
    \/ AUQ_Log
    \/ AUQ_Panic
    \/ AUQ_Return

SpecUnique == InitUnique /\ [][NextUnique]_vars

---------------------------------------------------------------------------
(* Claims about the envelope factory *)

\* the retryCount entry of the header mapping p refers to
RetryCount(p, h) == HeadersOf(p, h).map[RetryCountHeader]

\* C1: for maxRetries >= 0 and a source without a retryCount header, the
\* k-th call of a kickback chain succeeds with retry count k for every
\* k <= maxRetries+1, and the call after that (k = maxRetries+2) fails with
\* the retry-exhausted error.
C1_KickbackChain ==
    (lastOp = "GetKickbackMessage" /\ chain >= 1 /\ maxRetries >= 0) =>
        IF chain <= maxRetries + 1
        THEN err = "nil" /\ RetryCount(pub, heap) = Int64Val(chain)
        ELSE chain = maxRetries + 2 /\ err = "too many retries"

\* C2: one GetKickbackMessage call on a delivery whose count c is the int64
\* retryCount header (0 when the header or the mapping is absent) fails with
\* the retry-exhausted error and an empty envelope exactly when
\* c > maxRetries, and otherwise returns an envelope with retryCount c + 1.
C2_SingleKickback ==
    (lastOp = "GetKickbackMessage"
        /\ pre.map[RetryCountHeader].type \in {"absent", "int64"}) =>
        LET c == pre.map[RetryCountHeader].val
        IN IF c > maxRetries
           THEN err = "too many retries" /\ pub = EmptyPublishing
           ELSE err = "nil" /\ RetryCount(pub, heap) = Int64Val(c + 1)

\* C8: after GetNextMessage or GetKickbackMessage, succeeded or failed, the
\* source delivery's header mapping is what it was before the call.
C8_SourceHeadersUnchanged ==
    lastOp \in {"GetNextMessage", "GetKickbackMessage"} =>
        HeadersOf(msg, heap) = pre

\* C9: for a serializable body GetNextMessage succeeds with an envelope whose
\* retryCount header is 0 whatever the source's header mapping was, that keeps
\* every other header of the source, carries the serialized body and has the
\* source's content-type, content-encoding, delivery-mode and type.
C9_NextMessage ==
    (lastOp = "GetNextMessage" /\ Marshal(lastBody).err = "nil") =>
        /\ err = "nil"
        /\ pub.Headers # NilRef
        /\ RetryCount(pub, heap) = Int64Val(0)
        /\ \A k \in HeaderKeys \ {RetryCountHeader} :
              HeadersOf(pub, heap).map[k] = pre.map[k]
        /\ pub.ContentType = msg.ContentType
        /\ pub.ContentEncoding = msg.ContentEncoding
        /\ pub.DeliveryMode = msg.DeliveryMode
        /\ pub.Type = msg.Type
        /\ pub.Body = Marshal(lastBody).bytes

C9_Witness ==
    /\ lastOp = "GetNextMessage"
    /\ err = "nil"
    /\ pre.map[RetryCountHeader] = Int64Val(2)
    /\ pre.map[OtherHeader] # Absent
    /\ msg.Type # ""
    /\ RetryCount(pub, heap) = Int64Val(0)

\* C10: CreateMessage returns, for a serializable body, an envelope whose
\* header mapping is exactly {retryCount: 0}, whose body is the serialized
\* bytes and whose other fields are all unset; when serialization fails it
\* returns the error and the empty envelope.
C10_CreateMessage ==
    lastOp = "CreateMessage" =>
        LET m == Marshal(lastBody)
        IN IF m.err = "nil"
           THEN /\ err = "nil"
                /\ pub.Headers # NilRef
                /\ heap[pub.Headers] =
                       [k \in HeaderKeys |->
                           IF k = RetryCountHeader THEN Int64Val(0) ELSE Absent]
                /\ [pub EXCEPT !.Headers = NilRef] =
                       [EmptyPublishing EXCEPT !.Body = m.bytes]
           ELSE err = m.err /\ pub = EmptyPublishing

C10_Witness ==
    /\ lastOp = "CreateMessage"
    /\ err = "nil"
    /\ lastBody.kind = "string"
    /\ pub.Body = <<"\"", "a", "\"">>
    /\ pre.map[OtherHeader] # Absent

\* the body and the ten properties of a delivery or publishing
Properties(p) == [p EXCEPT !.Headers = NilRef]

\* C11: an envelope returned by a successful GetKickbackMessage has the body
\* and the ten properties (content-type, content-encoding, delivery-mode,
\* priority, correlation-id, reply-to, expiration, message-id, timestamp,
\* type) of the delivery it was made from, and of the delivery the chain of
\* kickbacks started from.
C11_KickbackKeepsBodyAndProperties ==
    (lastOp = "GetKickbackMessage" /\ err = "nil") =>
        /\ Properties(pub) = Properties(msg)
        /\ Properties(pub) = Properties(source)
        /\ pub.Body = source.Body

C11_Witness ==
    /\ lastOp = "GetKickbackMessage"
    /\ err = "nil"
    /\ chain = 2
    /\ source = FullDelivery
    /\ pub.Priority = 5
    /\ pub.Body = <<"{", "}">>

\* C16: for maxRetries >= 0, along a sequence of factory calls that begins
\* with CreateMessage and continues with GetKickbackMessage or
\* GetNextMessage on the envelope returned last, every returned envelope
\* has an int64 retryCount in 0..maxRetries+1; the count is the previous
\* count plus one after a successful kickback and 0 after CreateMessage or
\* GetNextMessage.
C16_RetryCountInRange ==
    (tracked /\ maxRetries >= 0) =>
        LET c == RetryCount(pub, heap)
        IN /\ c.type = "int64"
           /\ c.val \in 0 .. maxRetries + 1
           /\ lastOp \in {"CreateMessage", "GetNextMessage"} => c.val = 0
           /\ lastOp = "GetKickbackMessage" =>
                 c.val = pre.map[RetryCountHeader].val + 1

\* C19: a successful GetKickbackMessage on a delivery whose int64 count c
\* is not negative (0 when the header is absent) returns an envelope whose
\* count is not negative and greater than c, whatever maxRetries is.
C19_CountGrows ==
    (/\ lastOp = "GetKickbackMessage"
     /\ err = "nil"
     /\ pre.map[RetryCountHeader].type \in {"absent", "int64"}
     /\ pre.map[RetryCountHeader].val >= 0) =>
        /\ RetryCount(pub, heap).type = "int64"
        /\ RetryCount(pub, heap).val >= 0
        /\ RetryCount(pub, heap).val > pre.map[RetryCountHeader].val

\* C20: GetKickbackMessage on a delivery whose retryCount header holds a
\* value that is not an int64 panics at the type assertion: no envelope is
\* returned and the delivery's headers are as they were before the call.
C20_TypedAccessFails ==
    (/\ lastOp = "GetKickbackMessage"
     /\ pre.map[RetryCountHeader].type \notin {"absent", "int64"}) =>
        /\ err = "interface conversion"
        /\ pub = EmptyPublishing
        /\ HeadersOf(msg, heap) = pre

C20_Witness ==
    /\ lastOp = "GetKickbackMessage"
    /\ pre.map[RetryCountHeader] = Int32Val(1)
    /\ pre.map[OtherHeader] = StringVal(1)
    /\ err = "interface conversion"
    /\ maxRetries = IntMax

---------------------------------------------------------------------------
(* Claims about concurrent factory calls *)

\* C7: when two GetKickbackMessage calls, or two GetNextMessage calls, run
\* concurrently on the same delivery, in every interleaving each call's
\* result is, from its return on, what the call returns when run alone on the
\* original delivery.
C7_ConcurrentCallsIndependent ==
    (\A c, d \in Callers : frames[c].op = frames[d].op) =>
        \A c \in Callers :
            Finished(frames[c]) => Result(frames[c], heap) = solo[c]

---------------------------------------------------------------------------
(* Claims about the topology bootstrapper *)

\* the services handed to the bootstrapper
Given == {s \in Services : s <= n}

\* C3: a bind goroutine that acquired a channel has closed it by the time
\* its result is received by the caller, on the skip path and on the bind
\* path.
C3_CloseBeforeReport ==
    \A s \in Given :
        (reported[s] # "none" /\ channel[s] # "failed") => channel[s] = "closed"

\* C4: in AutoSetup no bind-phase step of any service (from the Channel
\* acquisition on) starts before every CreateQueue and CreateExchange
\* operation of the create phase has been called and has returned.
C4_CreateBeforeBind ==
    (entry = "AutoSetup" /\ \E s \in Services : btask[s] \notin {"none", "ready"}) =>
        \A t \in CreateTasks :
            t[1] \in Given =>
                created[t] = 1 /\ ctask[t] \in {"send_nil", "send_err", "done"}

C4_Witness ==
    /\ entry = "AutoSetup"
    /\ n = 2
    /\ logged > 0
    /\ btask[1] = "bind_wait"
    /\ btask[2] = "ready"

\* C5: TryCreateQueues calls CreateQueue and CreateExchange exactly once for
\* each of the N services and for no other, and when it has returned all 2N
\* operations have returned and their results were received, whatever failed.
C5_AllCreationsAwaited ==
    /\ \A t \in CreateTasks :
          created[t] <= 1 /\ (t[1] \notin Given => created[t] = 0)
    /\ (entry \in {"AutoSetup", "TryCreateQueues"}
            /\ pc \notin {"tcq_go_queue", "tcq_go_exchange", "tcq_recv"}) =>
          /\ \A t \in CreateTasks :
                t[1] \in Given => created[t] = 1 /\ ctask[t] = "done"
          /\ Cardinality({t \in CreateTasks : created[t] = 1}) = 2 * n

\* every one of the 2N operations failed, and TryCreateQueues returned
C5_Witness ==
    /\ entry = "TryCreateQueues"
    /\ pc = "returned"
    /\ n = 2
    /\ logged = 4
    /\ \A t \in CreateTasks : t[1] \in Given => ctask[t] = "done"

\* C6 as stated: for a service whose exchange name is empty no QueueBind
\* call is made and no error is reported, in every execution.
C6_DefaultExchangeSilent ==
    \A s \in Given :
        conf[s].Exchange.Name = "" =>
            /\ \A b \in BagToSet(binds) : b.svc # s
            /\ reported[s] # "err"

\* C6 as amended: for a service whose exchange name is empty no QueueBind
\* call is made, and an error is reported for it only when its Channel
\* acquisition failed.
C6_DefaultExchangeSkipped ==
    \A s \in Given :
        conf[s].Exchange.Name = "" =>
            /\ \A b \in BagToSet(binds) : b.svc # s
            /\ btask[s] \notin {"bind", "bind_wait", "send_bind_nil", "send_bind_err"}
            /\ (reported[s] = "err" => channel[s] = "failed")

C6_Witness ==
    \E s \in Given :
        /\ conf[s].Exchange.Name = ""
        /\ channel[s] = "closed"
        /\ reported[s] = "nil"
        /\ pc = "returned"

\* the QueueBind calls made for service s
BindsOf(s) == {b \in BagToSet(binds) : b.svc = s}

\* C14: for a service with a non-empty exchange name whose Channel call
\* succeeded, exactly one QueueBind call is made, on the service's channel
\* while it is open, with the queue name as queue and as routing key, the
\* exchange name as exchange, no-wait false and no arguments; by the time
\* the service's result is received the call has been made.  No QueueBind
\* call is made for a service whose Channel call failed.
C14_OneQueueBind ==
    \A s \in Given :
        /\ \A b \in BindsOf(s) :
              /\ CopiesIn(b, binds) = 1
              /\ b.on = "open"
              /\ b.call = [name |-> conf[s].QueueName, key |-> conf[s].QueueName,
                           exchange |-> conf[s].Exchange.Name,
                           noWait |-> FALSE, args |-> "nil"]
        /\ Cardinality(BindsOf(s)) <= 1
        /\ channel[s] = "failed" => BindsOf(s) = {}
        /\ (/\ conf[s].Exchange.Name # ""
            /\ channel[s] \in {"open", "closed"}
            /\ reported[s] # "none") => Cardinality(BindsOf(s)) = 1

C14_Witness ==
    /\ pc = "returned"
    /\ n = 2
    /\ conf[1].Exchange.Name # ""
    /\ channel[1] = "closed"
    /\ Cardinality(BindsOf(1)) = 1
    /\ channel[2] = "failed"
    /\ BindsOf(2) = {}

\* C15: when BindQueuesToExchange has returned to its caller, no channel
\* acquired by one of its goroutines is still open.
C15_ClosedAtReturn ==
    (entry \in {"AutoSetup", "BindQueuesToExchange"} /\ pc = "returned") =>
        \A s \in Given : channel[s] # "open"

\* no goroutine exists that has not finished
AllTasksDone ==
    /\ \A t \in CreateTasks : ctask[t] \in {"none", "done"}
    /\ \A s \in Services : btask[s] \in {"none", "done"}

\* the results the caller has to receive in each phase it runs
ResultsReceived ==
    /\ entry \in {"AutoSetup", "TryCreateQueues"} =>
          /\ CreateReceived = 2 * n
          /\ \A t \in CreateTasks : t[1] \in Given => ctask[t] = "done"
    /\ entry \in {"AutoSetup", "BindQueuesToExchange"} =>
          /\ BindReceived = n
          /\ \A s \in Given : btask[s] = "done"

\* C17: when every broker operation returns and every goroutine that can
\* take a step eventually takes one, the caller never receives more than 2N
\* results in TryCreateQueues or N in BindQueuesToExchange, and eventually
\* the called function has returned, the caller has received exactly one
\* result from each goroutine (2N, respectively N), and every goroutine has
\* finished, so none is left blocked on its send.
C17_SetupReturns ==
    /\ [](CreateReceived <= 2 * n /\ BindReceived <= n)
    /\ <>[](pc = "returned" /\ ResultsReceived /\ AllTasksDone)

\* AutoSetup has returned; one service failed to acquire its channel, the
\* other took the bind path
C17_Witness ==
    /\ entry = "AutoSetup"
    /\ pc = "returned"
    /\ n = 2
    /\ ResultsReceived
    /\ AllTasksDone
    /\ channel[1] = "failed"
    /\ Cardinality(BindsOf(2)) = 1

\* C18: Close is invoked at most once per service and never for a service
\* whose Channel call failed, QueueBind is never invoked on a closed
\* channel, and every channel that is open is eventually closed, having
\* been closed exactly once.
C18_ChannelClosedOnce ==
    /\ [](\A s \in Services :
            /\ closes[s] <= 1
            /\ channel[s] \in {"none", "failed"} => closes[s] = 0
            /\ channel[s] = "closed" => closes[s] = 1
            /\ \A b \in BindsOf(s) : b.on # "closed")
    /\ \A s \in Services :
          (channel[s] = "open") ~> (channel[s] = "closed" /\ closes[s] = 1)

\* closed on the skip path and after a failed bind
C18_Witness ==
    /\ n = 2
    /\ conf[1].Exchange.Name = ""
    /\ channel[1] = "closed"
    /\ closes[1] = 1
    /\ reported[2] = "err"
    /\ channel[2] = "closed"
    /\ closes[2] = 1
    /\ Cardinality(BindsOf(2)) = 1

---------------------------------------------------------------------------
(* Claims about AssertUniqueQueues *)

\* two configurations of the sequence share a QueueName
HasDuplicate(cs) ==
    \E a, b \in 1 .. Len(cs) : a # b /\ cs[a].QueueName = cs[b].QueueName

\* C12: AssertUniqueQueues halts with a panic only for a sequence in which
\* two configurations share a QueueName, and returns only for a sequence
\* whose names are pairwise distinct (the empty sequence included); for
\* distinct names it never reaches the logging loop and logs nothing.
C12_PanicIffDuplicate ==
    /\ auqPc = "panic" => HasDuplicate(confs)
    /\ auqPc = "returned" => ~HasDuplicate(confs) /\ errorLog = <<>>
    /\ (auqPc # "none" /\ ~HasDuplicate(confs)) =>
          auqPc \in {"range", "compare", "returned"} /\ errorLog = <<>>

C12_Witness ==
    /\ auqPc = "returned"
    /\ Len(confs) = 3
    /\ Cardinality(queues) = 3

\* the 0-based index of the first configuration whose name occurred earlier
FirstRepeat(cs) ==
    CHOOSE b \in 0 .. Len(cs) - 1 :
        /\ \E a \in 0 .. b - 1 : cs[a + 1].QueueName = cs[b + 1].QueueName
        /\ \A c \in 0 .. b - 1 :
              \A a \in 0 .. c - 1 : cs[a + 1].QueueName # cs[c + 1].QueueName

\* C13: the duplicate is detected at the smallest index whose name occurred
\* at an earlier index; the log then receives one line per configuration,
\* in index order, each with the index and the queue name, and all of them
\* are written before the panic.
C13_LogsAllBeforePanic ==
    /\ auqPc \in {"log", "panic"} =>
          /\ auqI = FirstRepeat(confs)
          /\ errorLog = [k \in 1 .. auqJ |->
                            [index |-> k - 1, name |-> confs[k].QueueName]]
    /\ auqPc = "panic" => Len(errorLog) = Len(confs)

C13_Witness ==
    /\ auqPc = "panic"
    /\ Len(confs) = 3
    /\ auqI = 2
    /\ confs[1].QueueName = confs[3].QueueName
    /\ Len(errorLog) = 3

====
